---- MODULE Spec2Model ----
(***************************************************************************)
(* runraisenext: launch an app, focus it, or cycle to its next window.     *)
(*                                                                         *)
(* The model follows src/runraisenext.py.  One invocation of main() loads  *)
(* the pickled most-recently-used window list, reconciles it with the      *)
(* window manager's live list, decides between launching, focusing and     *)
(* advancing, and saves the promoted list.  It does so one call at a time, *)
(* with no lock: between two calls another press can start and run, and    *)
(* the window manager opens and closes windows and moves the focus.        *)
(*                                                                         *)
(* Strings are sequences of ASCII codes, so that lower() and the substring *)
(* test of matches() are computed, not assumed.                            *)
(***************************************************************************)
EXTENDS Integers, Sequences, FiniteSets, TLC

VARIABLES
    store,              \* the pickle file ~/.runraisenext.pickle
    live,               \* wmctrl.windows(): the live windows, in its order
    focused,            \* wmctrl.focused_window(), None when nothing is
    proc,               \* the processes running main(), each where it stands
    focusLog,           \* windows focused by consecutive undisturbed presses
    cycleFromUnfocused, \* the first press of focusLog found the app unfocused
    unit,               \* one call of a single function: arguments and result
    lastDump,           \* the list written by the latest pickle.dump
    meanwhile           \* what else has happened during the presses under way

vars == <<store, live, focused, proc, focusLog, cycleFromUnfocused, unit,
          lastDump, meanwhile>>

----------------------------------------------------------------------------
(* Bounds *)

NumWindows == 3

MaxPresses == 6

\* What else happens while presses are under way.
MaxMeanwhile == 1

----------------------------------------------------------------------------
(* Generic list helpers (Python list semantics) *)

Range(s) == {s[i] : i \in 1..Len(s)}

\* x in s
Contains(s, x) == \E i \in 1..Len(s) : s[i] = x

IsDupFree(s) == \A i, j \in 1..Len(s) : i # j => s[i] # s[j]

\* s.index(x), for x in s
IndexOf(s, x) == CHOOSE i \in 1..Len(s) : s[i] = x /\ \A j \in 1..(i-1) : s[j] # x

\* s.remove(x): drops the first occurrence
ListRemove(s, x) ==
    LET i == IndexOf(s, x) IN SubSeq(s, 1, i-1) \o SubSeq(s, i+1, Len(s))

\* s.insert(0, x)
InsertFront(s, x) == <<x>> \o s

\* all duplicate-free lists over the set S
RECURSIVE DupFreeSeqs(_)
DupFreeSeqs(S) ==
    {<<>>} \cup UNION {{<<x>> \o t : t \in DupFreeSeqs(S \ {x})} : x \in S}

----------------------------------------------------------------------------
(* Strings *)

\* str.lower() on ASCII
Lower(s) == [i \in 1..Len(s) |-> IF s[i] >= 65 /\ s[i] <= 90 THEN s[i] + 32 ELSE s[i]]

\* s in t
IsSubstring(s, t) ==
    \E i \in 0..(Len(t) - Len(s)) : SubSeq(t, i+1, i+Len(s)) = s

----------------------------------------------------------------------------
(* Windows and window specs *)

None == 0

WindowIds == 1..NumWindows

\* The attributes of a window object.  Window w has
\*   id       "x<w>"
\*   desktop  "0"
\*   pid      "7<w>"
\*   wm_class "N.F" when w is odd, "xt" when w is even
\*   title    w letters, alternating "a" and "A"
\*   machine  "H", and no machine attribute at all when 3 divides w
WindowAttrs(w) ==
    LET base == [id       |-> <<120, 48 + w>>,
                 desktop  |-> <<48>>,
                 pid      |-> <<55, 48 + w>>,
                 wm_class |-> IF w % 2 = 1 THEN <<78, 46, 70>> ELSE <<120, 116>>,
                 title    |-> [i \in 1..w |-> IF i % 2 = 1 THEN 97 ELSE 65]]
    IN IF w % 3 = 0 THEN base ELSE base @@ [machine |-> <<72>>]

\* getattr(window, key, '')
GetAttr(w, key) ==
    IF key \in DOMAIN WindowAttrs(w) THEN WindowAttrs(w)[key] ELSE <<>>

\* The window specs given on the command line or found in the config file.
WindowSpecs ==
    { [wm_class |-> <<46, 102>>, command |-> <<102, 102>>],  \* ".f", runs "ff"
      [title |-> <<65, 65>>],                                \* "AA", no command
      [title |-> <<97>>, command |-> <<102, 102>>],          \* "a", runs "ff"
      [title |-> <<122>>, command |-> <<>>],                 \* "z", empty command
      [command |-> <<102, 102>>],                            \* only a command
      <<>>,                                                  \* empty spec
      [machine |-> <<104>>, desktop |-> <<48>>],             \* "h" on desktop "0"
      [id |-> <<88, 50>>, command |-> <<103>>],              \* "X2", runs "g"
      [window_id |-> <<120, 49>>, command |-> <<103>>],      \* "x1" under the
                                                             \* docstring's key
      [window_id |-> <<>>, command |-> <<103>>] }            \* "" under it

\* The keys runraisenext looks for before it matches anything.
SpecOptionKeys == {"id", "desktop", "pid", "wm_class", "machine", "title"}

HasSpecOption(window_spec) == (DOMAIN window_spec) \cap SpecOptionKeys # {}

matches(window, window_spec) ==
    \A key \in (DOMAIN window_spec) \ {"command"} :
        IsSubstring(Lower(window_spec[key]), Lower(GetAttr(window, key)))

\* matches(window, window_spec) for every window and every window spec,
\* computed once.
MatchTable == [w \in WindowIds |-> {ws \in WindowSpecs : matches(w, ws)}]

IsMatch(window, window_spec) == window_spec \in MatchTable[window]

\* [window for window in open_windows if matches(window, window_spec)]
MatchingWindows(open_windows, window_spec) ==
    SelectSeq(open_windows, LAMBDA w : IsMatch(w, window_spec))

----------------------------------------------------------------------------
(* The persisted MRU list *)

\* What the pickle file can be: absent, holding something that is not a
\* pickle, failing with an I/O error while it is read, or holding a list.
StoreMissing == [st |-> "missing", list |-> <<>>]
StoreCorrupt == [st |-> "corrupt", list |-> <<>>]
StoreIOError == [st |-> "ioerror", list |-> <<>>]
StoreOf(list) == [st |-> "ok", list |-> list]

\* Lines 66-71 of windows(): open() is outside the try block and only
\* IOError is caught around pickle.load().  The result is the loaded list,
\* or an exception that leaves windows().
PickleLoad(file_) ==
    CASE file_.st = "missing" -> [raised |-> TRUE,  list |-> <<>>]
      [] file_.st = "corrupt" -> [raised |-> TRUE,  list |-> <<>>]
      [] file_.st = "ioerror" -> [raised |-> FALSE, list |-> <<>>]
      [] OTHER                -> [raised |-> FALSE, list |-> file_.list]

\* open(pickle_file(), "w") of line 104: the file exists and is empty, which
\* pickle.load does not accept.  A file whose reads and writes fail with
\* an I/O error is opened and stays as it is.
OpenForWriting(file_) == IF file_.st = "ioerror" THEN file_ ELSE StoreCorrupt

\* pickle.dump(open_windows, file_) of line 105 and the close that ends the
\* with block: the file holds the pickle of the list.
PickleDump(file_, previous, list) == StoreOf(list)

\* AddOpened with list.append in place of list.insert(0, ...).
RECURSIVE AddOpened_Append(_, _, _)
AddOpened_Append(pickled_window_list, current_window_list, i) ==
    IF i > Len(current_window_list) THEN pickled_window_list
    ELSE LET window == current_window_list[i] IN
         AddOpened_Append(IF ~Contains(pickled_window_list, window)
                              THEN Append(pickled_window_list, window)
                              ELSE pickled_window_list,
                          current_window_list, i + 1)

\* AddOpened without the membership test of line 81.
RECURSIVE AddOpened_NoTest(_, _, _)
AddOpened_NoTest(pickled_window_list, current_window_list, i) ==
    IF i > Len(current_window_list) THEN pickled_window_list
    ELSE AddOpened_NoTest(InsertFront(pickled_window_list, current_window_list[i]),
                          current_window_list, i + 1)

\* Lines 80-82: the loop over current_window_list[i..], inserting at the
\* front every window that is not yet in the list.
RECURSIVE AddOpened(_, _, _)
AddOpened(pickled_window_list, current_window_list, i) ==
    IF i > Len(current_window_list) THEN pickled_window_list
    ELSE LET window == current_window_list[i] IN
         AddOpened(IF ~Contains(pickled_window_list, window)
                       THEN InsertFront(pickled_window_list, window)
                       ELSE pickled_window_list,
                   current_window_list, i + 1)

\* RemoveClosed without the filter.
RemoveClosed_KeepAll(pickled_window_list, current_window_list) ==
    pickled_window_list

\* Lines 75-76: drop the windows closed since the last run.
RemoveClosed(pickled_window_list, current_window_list) ==
    SelectSeq(pickled_window_list, LAMBDA w : Contains(current_window_list, w))

\* Lines 74-84 of windows(): reconcile the stored list with the live one.
Reconcile(pickled_window_list, current_window_list) ==
    AddOpened(RemoveClosed(pickled_window_list, current_window_list),
              current_window_list, 1)

\* windows(): load, then reconcile.
windows(file_, current_window_list) ==
    LET pickled == PickleLoad(file_) IN
    IF pickled.raised THEN [raised |-> TRUE, list |-> <<>>]
    ELSE [raised |-> FALSE, list |-> Reconcile(pickled.list, current_window_list)]

\* Lines 98-103 of update_pickled_window_list: the two assertions.
PromoteAsserts(open_windows, newly_focused_window) ==
    /\ Contains(open_windows, newly_focused_window)
    /\ ~Contains(ListRemove(open_windows, newly_focused_window),
                 newly_focused_window)

\* Promote without the remove of line 99.
Promote_NoRemove(open_windows, newly_focused_window) ==
    InsertFront(open_windows, newly_focused_window)

\* Lines 99 and 103: remove the window, insert it at index 0.
Promote(open_windows, newly_focused_window) ==
    InsertFront(ListRemove(open_windows, newly_focused_window),
                newly_focused_window)

----------------------------------------------------------------------------
(* The decision *)

\* Lines 162-167: the run of matching windows at the top of open_windows.
RECURSIVE VisitedWindows(_, _, _)
VisitedWindows(matching_windows, open_windows, i) ==
    IF i > Len(open_windows) \/ ~Contains(matching_windows, open_windows[i])
    THEN <<>>
    ELSE <<open_windows[i]>> \o VisitedWindows(matching_windows, open_windows, i + 1)

\* _unvisited_windows without the break of line 167: every matching window
\* of open_windows counts as visited.
UnvisitedWindows_NoBreak(matching_windows, open_windows) ==
    SelectSeq(matching_windows, LAMBDA w : ~Contains(open_windows, w))

\* _unvisited_windows with nothing counted as visited.
UnvisitedWindows_All(matching_windows, open_windows) ==
    matching_windows

\* _unvisited_windows(matching_windows, open_windows)
UnvisitedWindows(matching_windows, open_windows) ==
    LET visited_windows == VisitedWindows(matching_windows, open_windows, 1) IN
    SelectSeq(matching_windows, LAMBDA w : ~Contains(visited_windows, w))

\* The calls an invocation makes, in the order it makes them.
FocusCall(w)   == [op |-> "focus", win |-> w,    cmd |-> <<>>, list |-> <<>>]
RunCall(c)     == [op |-> "run",   win |-> None, cmd |-> c,    list |-> <<>>]
SaveCall(list) == [op |-> "save",  win |-> None, cmd |-> <<>>, list |-> list]

\* run_window_spec_command with "if command is not None".
run_window_spec_command_RunsEmpty(window_spec) ==
    IF "command" \in DOMAIN window_spec
    THEN <<RunCall(window_spec["command"])>>
    ELSE <<>>

\* run_window_spec_command: run the command if the spec has a non-empty one.
run_window_spec_command(window_spec) ==
    IF "command" \in DOMAIN window_spec /\ window_spec["command"] # <<>>
    THEN <<RunCall(window_spec["command"])>>
    ELSE <<>>

\* update_pickled_window_list with the assertion of line 98 made only after
\* the list is changed and written.
update_pickled_window_list_LateAssert(open_windows, newly_focused_window) ==
    IF ~Contains(open_windows, newly_focused_window)
    THEN [raised |-> TRUE,
          open   |-> InsertFront(open_windows, newly_focused_window),
          calls  |-> <<SaveCall(InsertFront(open_windows, newly_focused_window))>>]
    ELSE IF ~PromoteAsserts(open_windows, newly_focused_window)
    THEN [raised |-> TRUE,
          open   |-> ListRemove(open_windows, newly_focused_window),
          calls  |-> <<>>]
    ELSE [raised |-> FALSE,
          open   |-> Promote(open_windows, newly_focused_window),
          calls  |-> <<SaveCall(Promote(open_windows, newly_focused_window))>>]

\* update_pickled_window_list(open_windows, newly_focused_window): whether an
\* assertion failed, the list as the call leaves it, and what it wrote.
update_pickled_window_list(open_windows, newly_focused_window) ==
    IF ~Contains(open_windows, newly_focused_window)
    THEN [raised |-> TRUE, open |-> open_windows, calls |-> <<>>]
    ELSE IF ~PromoteAsserts(open_windows, newly_focused_window)
    THEN [raised |-> TRUE,
          open   |-> ListRemove(open_windows, newly_focused_window),
          calls  |-> <<>>]
    ELSE [raised |-> FALSE,
          open   |-> Promote(open_windows, newly_focused_window),
          calls  |-> <<SaveCall(Promote(open_windows, newly_focused_window))>>]

\* FocusAndPromote with the two calls in the other order.
FocusAndPromote_SaveFirst(kind, open_windows, target) ==
    LET updated == update_pickled_window_list(open_windows, target) IN
    [action |-> IF updated.raised THEN "ASSERT" ELSE kind,
     calls  |-> updated.calls \o <<FocusCall(target)>>,
     open   |-> updated.open]

\* FocusAndPromote without the call of update_pickled_window_list.
FocusAndPromote_NoSave(kind, open_windows, target) ==
    [action |-> kind, calls |-> <<FocusCall(target)>>, open |-> open_windows]

\* focus_window_function(target); update_pickled_window_list(open_windows, target)
FocusAndPromote(kind, open_windows, target) ==
    LET updated == update_pickled_window_list(open_windows, target) IN
    [action |-> IF updated.raised THEN "ASSERT" ELSE kind,
     calls  |-> <<FocusCall(target)>> \o updated.calls,
     open   |-> updated.open]

Launch(window_spec, open_windows) ==
    [action |-> "LAUNCH",
     calls  |-> run_window_spec_command(window_spec),
     open   |-> open_windows]

\* AdvanceTarget wrapping to matching_windows[0].
AdvanceTarget_WrapFirst(matching_windows, open_windows) ==
    LET unvisited == UnvisitedWindows(matching_windows, open_windows) IN
    IF unvisited # <<>> THEN unvisited[1]
    ELSE matching_windows[1]

\* The window the advance branch focuses (lines 229-235).
AdvanceTarget(matching_windows, open_windows) ==
    LET unvisited == UnvisitedWindows(matching_windows, open_windows) IN
    IF unvisited # <<>> THEN unvisited[1]
    ELSE matching_windows[Len(matching_windows)]

\* FocusFirst focusing matching_windows[-1].
FocusFirst_Last(open_windows, matching_windows) ==
    FocusAndPromote("FOCUS", open_windows, matching_windows[Len(matching_windows)])

\* Lines 219-221: the app is not focused, focus its most recently used window.
FocusFirst(open_windows, matching_windows) ==
    FocusAndPromote("FOCUS", open_windows, matching_windows[1])

\* Noop saving the list it was given.
Noop_Saves(open_windows) ==
    [action |-> "NOOP", calls |-> <<SaveCall(open_windows)>>, open |-> open_windows]

\* Lines 223-224: one window, already focused: pass.
Noop(open_windows) ==
    [action |-> "NOOP", calls |-> <<>>, open |-> open_windows]

\* Decide without the branch of lines 222-224.
Decide_NoSingleCheck(window_spec, open_windows, focused_window, matching_windows) ==
    IF matching_windows = <<>> THEN Launch(window_spec, open_windows)
    ELSE IF ~Contains(matching_windows, focused_window)
        THEN FocusFirst(open_windows, matching_windows)
    ELSE IF ~(Contains(matching_windows, focused_window) /\ Len(matching_windows) > 1)
        THEN [action |-> "ASSERT", calls |-> <<>>, open |-> open_windows]
    ELSE FocusAndPromote("ADVANCE", open_windows,
                         AdvanceTarget(matching_windows, open_windows))

\* Lines 215-235 of runraisenext: the branches taken once matching_windows
\* is computed.
Decide(window_spec, open_windows, focused_window, matching_windows) ==
    IF matching_windows = <<>> THEN Launch(window_spec, open_windows)
    ELSE IF ~Contains(matching_windows, focused_window)
        THEN FocusFirst(open_windows, matching_windows)
    ELSE IF Len(matching_windows) = 1 /\ Contains(matching_windows, focused_window)
        THEN Noop(open_windows)
    ELSE IF ~(Contains(matching_windows, focused_window) /\ Len(matching_windows) > 1)
        THEN [action |-> "ASSERT", calls |-> <<>>, open |-> open_windows]
    ELSE FocusAndPromote("ADVANCE", open_windows,
                         AdvanceTarget(matching_windows, open_windows))

\* runraisenext(window_spec, run, open_windows, focused_window, focus_window)
runraisenext(window_spec, open_windows, focused_window) ==
    IF ~HasSpecOption(window_spec) THEN Launch(window_spec, open_windows)
    ELSE IF open_windows = <<>> THEN Launch(window_spec, open_windows)
    ELSE Decide(window_spec, open_windows, focused_window,
                MatchingWindows(open_windows, window_spec))

\* The effect of a sequence of calls on the pickle file and on the focus.
RECURSIVE StoreAfter(_, _)
StoreAfter(file_, cs) ==
    IF cs = <<>> THEN file_
    ELSE StoreAfter(IF Head(cs).op = "save" THEN StoreOf(Head(cs).list) ELSE file_,
                    Tail(cs))

RECURSIVE FocusAfter(_, _)
FocusAfter(f, cs) ==
    IF cs = <<>> THEN f
    ELSE FocusAfter(IF Head(cs).op = "focus" THEN Head(cs).win ELSE f, Tail(cs))

----------------------------------------------------------------------------
(* The state machine.  A press of the hotkey starts a process that runs    *)
(* main() one call at a time: the read of the pickle file, then            *)
(* wmctrl.windows(), then wmctrl.focused_window() and the decision, then   *)
(* the calls the decision makes, in order, the save being open(..., "w")   *)
(* followed by pickle.dump.  The code takes no lock: between two steps of  *)
(* a process another process can take steps, another press can start, and  *)
(* the window manager can open and close windows and move the focus.       *)

IsFocusAction(a) == a \in {"FOCUS", "ADVANCE"}

\* Two presses can be under way at a time.
Procs == {1, 2}

\* A process that has not started.  atLoad is the pickle file windows()
\* read, open_windows the list it returned, focusedRead what
\* wmctrl.focused_window() returned, calls the calls of the branch taken
\* and todo those still to make, opened the in-memory list once promoted,
\* found the pickle file open(..., "w") emptied; alone tells that nothing
\* else has acted since the process started.
NotStarted ==
    [pc |-> "start", window_spec |-> <<>>, atLoad |-> StoreMissing,
     open_windows |-> <<>>, focusedRead |-> None, action |-> "", calls |-> <<>>,
     todo |-> <<>>, opened |-> <<>>, alone |-> FALSE, found |-> StoreMissing,
     didFocus |-> FALSE, dumped |-> <<>>, crashedAt |-> ""]

\* main() is over: it returned, or an exception left it.
EndedPcs == {"done", "raised", "savefailed"}

Ended(p) == proc[p].pc \in EndedPcs

\* Where a process stands while main() is under way.
RunningPcs == {"read", "loaded", "calls", "dumping"}

Running(p) == proc[p].pc \in RunningPcs

\* The other processes once something else than they has taken a step: none
\* is alone any more.
Disturbed == [q \in Procs |-> [proc[q] EXCEPT !.alone = FALSE]]

\* The processes after a step of process p that leaves it as `now`.
Stepped(p, now) == [Disturbed EXCEPT ![p] = now]

\* The other processes as a new press or the window manager leaves them:
\* of those that are no longer under way nothing is kept.
Remaining ==
    [q \in Procs |-> IF Running(q) THEN Disturbed[q] ELSE NotStarted]

\* What is kept besides the program's state: the log of repeated presses,
\* the latest dump, and the counts of what happened during the presses
\* under way.
watch == <<focusLog, cycleFromUnfocused, lastDump, meanwhile>>

Unwatched ==
    /\ focusLog = <<>>
    /\ cycleFromUnfocused = FALSE
    /\ lastDump = <<>>
    /\ meanwhile = 0

Idle ==
    /\ proc = [p \in Procs |-> NotStarted]
    /\ Unwatched

Init ==
    /\ unit = <<>>
    /\ store \in {StoreMissing, StoreCorrupt, StoreIOError}
                     \cup {StoreOf(l) : l \in DupFreeSeqs(WindowIds)}
    /\ live \in DupFreeSeqs(WindowIds)
    /\ focused \in Range(live) \cup {None}
    /\ Idle

\* Lines 312-313 and 66-71: parse_command_line_arguments(args), then the
\* read of the pickle file at the head of windows().  open() and
\* pickle.load() can raise what line 70 does not catch; main() is then
\* over.  The new process takes the place of p; `others` is what is kept
\* of the other processes.
ReadStep(p, window_spec, others) ==
    /\ ~Running(p)
    /\ \E pickled \in {PickleLoad(store)} :
        proc' = [others EXCEPT ![p] = [NotStarted EXCEPT
                    !.pc = IF pickled.raised THEN "raised" ELSE "read",
                    !.action = IF pickled.raised THEN "RAISED" ELSE "",
                    !.window_spec = window_spec,
                    !.atLoad = store,
                    !.alone = \A q \in Procs \ {p} : others[q].pc = "start"]]
    /\ UNCHANGED <<store, live, focused, unit>>

\* Lines 72-84: wmctrl.windows() is called and the list that was read is
\* reconciled with its result.
ListStep(p) ==
    /\ proc[p].pc = "read"
    /\ \E open_windows \in {Reconcile(PickleLoad(proc[p].atLoad).list, live)} :
        proc' = Stepped(p, [proc[p] EXCEPT
                    !.pc = "loaded",
                    !.open_windows = open_windows,
                    !.opened = open_windows])
    /\ UNCHANGED <<store, live, focused, unit>>

\* The place of a process once it has no call left to make: an assertion
\* that failed leaves main() as an exception.
AtEnd(a) == IF a = "ASSERT" THEN "raised" ELSE "done"

\* Line 314 and runraisenext up to its first call: wmctrl.focused_window()
\* is read and the branch is chosen; the calls it makes are still to do.
DecideStep(p) ==
    /\ proc[p].pc = "loaded"
    /\ \E r \in {runraisenext(proc[p].window_spec, proc[p].open_windows, focused)} :
        proc' = Stepped(p, [proc[p] EXCEPT
                    !.focusedRead = focused,
                    !.action = r.action,
                    !.calls = r.calls,
                    !.todo = r.calls,
                    !.opened = r.open,
                    !.pc = IF r.calls = <<>> THEN AtEnd(r.action) ELSE "calls"])
    /\ UNCHANGED <<store, live, focused, unit>>

\* Process p once the first of its calls is made.
AfterCall(p) ==
    [proc[p] EXCEPT !.todo = Tail(proc[p].todo),
                    !.pc = IF Tail(proc[p].todo) = <<>> THEN AtEnd(proc[p].action)
                           ELSE "calls"]

\* run_function(command)
RunStep(p) ==
    /\ proc[p].pc = "calls"
    /\ Head(proc[p].todo).op = "run"
    /\ proc' = Stepped(p, AfterCall(p))
    /\ UNCHANGED <<store, live, focused, unit>>

\* focus_window_function(window): the window manager focuses the window,
\* unless it has closed since the process listed the windows.
FocusStep(p) ==
    /\ proc[p].pc = "calls"
    /\ Head(proc[p].todo).op = "focus"
    /\ focused' = IF Contains(live, Head(proc[p].todo).win)
                  THEN Head(proc[p].todo).win ELSE focused
    /\ proc' = Stepped(p, [AfterCall(p) EXCEPT !.didFocus = TRUE])
    /\ UNCHANGED <<store, live, unit>>

\* Line 104: open(pickle_file(), "w").
OpenStep(p) ==
    /\ proc[p].pc = "calls"
    /\ Head(proc[p].todo).op = "save"
    /\ store' = OpenForWriting(store)
    /\ proc' = Stepped(p, [proc[p] EXCEPT !.pc = "dumping", !.found = store])
    /\ UNCHANGED <<live, focused, unit>>

\* Line 104 raising IOError: the file cannot be opened for writing.
OpenFails(p) ==
    /\ proc[p].pc = "calls"
    /\ Head(proc[p].todo).op = "save"
    /\ proc' = Stepped(p, [proc[p] EXCEPT !.pc = "savefailed"])
    /\ UNCHANGED <<store, live, focused, unit>>

\* Line 105: pickle.dump(open_windows, file_), written out when the with
\* block closes the file.
DumpStep(p) ==
    /\ proc[p].pc = "dumping"
    /\ store.st # "ioerror"
    /\ store' = PickleDump(store, proc[p].found.list, Head(proc[p].todo).list)
    /\ proc' = Stepped(p, [AfterCall(p) EXCEPT !.dumped = Head(proc[p].todo).list])
    /\ UNCHANGED <<live, focused, unit>>

\* Line 105 raising IOError: nothing can be written to the opened file.
DumpFails(p) ==
    /\ proc[p].pc = "dumping"
    /\ proc' = Stepped(p, [proc[p] EXCEPT !.pc = "savefailed"])
    /\ UNCHANGED <<store, live, focused, unit>>

\* The process is killed where it stands.
Crash(p) ==
    /\ Running(p)
    /\ proc' = Stepped(p, [proc[p] EXCEPT !.pc = "crashed", !.crashedAt = proc[p].pc])
    /\ UNCHANGED <<store, live, focused, unit>>

\* A window opens: the window manager lists it somewhere in its list, and
\* focuses it or leaves the focus where it is.
OpenWindow ==
    \E w \in WindowIds, i \in 0..Len(live) :
        /\ ~Contains(live, w)
        /\ live' = SubSeq(live, 1, i) \o <<w>> \o SubSeq(live, i + 1, Len(live))
        /\ focused' \in {focused, w}
        /\ proc' = Remaining
        /\ UNCHANGED <<store, unit>>

\* A window closes.
CloseWindow ==
    \E w \in WindowIds :
        /\ Contains(live, w)
        /\ live' = ListRemove(live, w)
        /\ focused' = IF focused = w THEN None ELSE focused
        /\ proc' = Remaining
        /\ UNCHANGED <<store, unit>>

\* The focus moves without this tool: the user clicks a window, or nothing
\* is focused any more.
ExternalFocus ==
    \E w \in (Range(live) \cup {None}) \ {focused} :
        /\ focused' = w
        /\ proc' = Remaining
        /\ UNCHANGED <<store, live, unit>>

\* The window specs of the presses that can come one during the other.
StepSpecs ==
    { [title |-> <<97>>, command |-> <<102, 102>>],
      [wm_class |-> <<46, 102>>, command |-> <<102, 102>>],
      [command |-> <<102, 102>>] }

\* No press is under way once the step is taken.
AllOver == \A q \in Procs : proc'[q].pc \notin RunningPcs

\* A press is under way.
During == \E q \in Procs : Running(q)

\* What else happens during the presses under way is counted, n being what
\* the step adds: a step of the window manager, another press, a kill, a
\* save that fails on a sound file.  The count starts again once no press
\* is under way.
Counted(n) ==
    /\ During /\ n > 0 => meanwhile < MaxMeanwhile
    /\ meanwhile' = IF AllOver THEN 0 ELSE meanwhile + n

\* The log of repeated presses, kept as process p takes a step.  A press of
\* process 1 that ran alone to its end and focused a window is logged; it
\* goes on the cycle under way when it advanced, and starts one otherwise.
\* Any other end of a process ends the cycle.
Logged(p, n) ==
    LET now == proc'[p] IN
    /\ Counted(n)
    /\ UNCHANGED lastDump
    /\ IF now.pc \notin EndedPcs \cup {"crashed"}
       THEN UNCHANGED <<focusLog, cycleFromUnfocused>>
       ELSE IF p = 1 /\ now.alone /\ now.pc = "done" /\ IsFocusAction(now.action)
       THEN LET continues == focusLog # <<>> /\ now.action = "ADVANCE" IN
            /\ focusLog' = IF continues THEN Append(focusLog, now.opened[1])
                           ELSE <<now.opened[1]>>
            /\ cycleFromUnfocused' = IF continues THEN cycleFromUnfocused
                                     ELSE now.action = "FOCUS"
       ELSE /\ focusLog' = <<>>
            /\ cycleFromUnfocused' = FALSE

\* A press of a hotkey that takes the place p, at any time the place is
\* free.  One that follows a press of the same window spec that ran alone
\* goes on with its log.
Press(p, hotkeys) ==
    \E window_spec \in hotkeys :
        LET repeats == /\ ~During
                       /\ Ended(1)
                       /\ proc[1].alone
                       /\ proc[1].window_spec = window_spec
        IN  /\ repeats => Len(focusLog) < MaxPresses
            /\ ReadStep(p, window_spec, Remaining)
            /\ Counted(IF During THEN 1 ELSE 0)
            /\ UNCHANGED lastDump
            /\ IF repeats /\ proc'[p].pc = "read"
               THEN UNCHANGED <<focusLog, cycleFromUnfocused>>
               ELSE focusLog' = <<>> /\ cycleFromUnfocused' = FALSE

\* The place a new press takes: that of process 1 unless it is under way.
Place == IF Running(1) THEN 2 ELSE 1

\* A step of the window manager: one that comes during a press is counted,
\* and the log of repeated presses ends.
Event(A) ==
    /\ A
    /\ Counted(1)
    /\ focusLog' = <<>>
    /\ cycleFromUnfocused' = FALSE
    /\ UNCHANGED lastDump

\* Every step comes at any time: the steps of the processes, a press
\* during another, the steps of the window manager, a kill, a save that
\* fails.
Next ==
    \/ Press(Place, StepSpecs)
    \/ \E p \in Procs : ListStep(p) /\ Logged(p, 0)
    \/ \E p \in Procs : DecideStep(p) /\ Logged(p, 0)
    \/ \E p \in Procs : RunStep(p) /\ Logged(p, 0)
    \/ \E p \in Procs : FocusStep(p) /\ Logged(p, 0)
    \/ \E p \in Procs : OpenStep(p) /\ Logged(p, 0)
    \/ \E p \in Procs : OpenFails(p) /\ Logged(p, 1)
    \/ \E p \in Procs : DumpStep(p) /\ Logged(p, 0)
    \/ \E p \in Procs : DumpFails(p) /\ Logged(p, IF store.st = "ioerror" THEN 0 ELSE 1)
    \/ \E p \in Procs : Crash(p) /\ Logged(p, 1)
    \/ Event(OpenWindow)
    \/ Event(CloseWindow)
    \/ Event(ExternalFocus)

Spec == Init /\ [][Next]_vars

\* One process and nothing else: the presses of a hotkey one after the
\* other, of every window spec, each run to its end; its save can fail at
\* open(..., "w") and at pickle.dump.
NextAlone ==
    \/ Press(1, WindowSpecs)
    \/ ListStep(1) /\ Logged(1, 0)
    \/ DecideStep(1) /\ Logged(1, 0)
    \/ RunStep(1) /\ Logged(1, 0)
    \/ FocusStep(1) /\ Logged(1, 0)
    \/ OpenStep(1) /\ Logged(1, 0)
    \/ OpenFails(1) /\ Logged(1, 1)
    \/ DumpStep(1) /\ Logged(1, 0)
    \/ DumpFails(1) /\ Logged(1, IF store.st = "ioerror" THEN 0 ELSE 1)

SpecAlone == Init /\ [][NextAlone]_vars

----------------------------------------------------------------------------
(* Properties.  Each is stated on what a press of process 1 leaves behind  *)
(* once main() is over: storeAtCall is the pickle file it found, ordered   *)
(* the list windows() returned, focusedAtCall the focused window it was    *)
(* given, calls what it did.  What is said of the pickle file, the live    *)
(* windows and the focus as they are now is said of a press that ran with  *)
(* nothing else acting meanwhile.                                          *)

\* The branch taken by the press: IDLE when none is over, RAISED when
\* windows() raised.
action == IF Ended(1) THEN proc[1].action ELSE "IDLE"

spec == IF Ended(1) THEN proc[1].window_spec ELSE <<>>

focusedAtCall == IF Ended(1) THEN proc[1].focusedRead ELSE None

storeAtCall == IF Ended(1) THEN proc[1].atLoad ELSE StoreMissing

ordered == IF Ended(1) THEN proc[1].open_windows ELSE <<>>

openWindows == IF Ended(1) THEN proc[1].opened ELSE <<>>

calls == IF Ended(1) THEN proc[1].calls ELSE <<>>

\* Nothing but the press has acted since it started.
Undisturbed == Ended(1) /\ proc[1].alone

\* The press ran undisturbed and main() returned: no save failed.
Returned == Undisturbed /\ proc[1].pc = "done"


\* The list the last invocation loaded from the pickle file.
loaded == storeAtCall.list

\* runraisenext was entered: windows() returned a list.
Decided == action \notin {"IDLE", "RAISED"}

\* The windows of orderedWindows that match the spec, in that order.
SpecMatching == SelectSeq(ordered, LAMBDA w : IsMatch(w, spec))

FocusCalls == SelectSeq(calls, LAMBDA c : c.op = "focus")
RunCalls   == SelectSeq(calls, LAMBDA c : c.op = "run")
SaveCalls  == SelectSeq(calls, LAMBDA c : c.op = "save")

\* The list s without the window w, order kept.
Without(s, w) == SelectSeq(s, LAMBDA x : x # w)

\* The first window of orderedWindows that matches the spec.
FirstMatching ==
    ordered[CHOOSE i \in 1..Len(ordered) :
                /\ IsMatch(ordered[i], spec)
                /\ \A j \in 1..(i-1) : ~IsMatch(ordered[j], spec)]

\* The last window of orderedWindows that matches the spec.
LastMatching ==
    ordered[CHOOSE i \in 1..Len(ordered) :
                /\ IsMatch(ordered[i], spec)
                /\ \A j \in (i+1)..Len(ordered) : ~IsMatch(ordered[j], spec)]

\* The length of the longest prefix of orderedWindows made only of matching
\* windows.
VisitedPrefixLen ==
    CHOOSE n \in 0..Len(ordered) :
        /\ \A i \in 1..n : IsMatch(ordered[i], spec)
        /\ n < Len(ordered) => ~IsMatch(ordered[n+1], spec)

\* The matching windows outside the visited prefix, in orderedWindows order.
SpecUnvisited ==
    SelectSeq(SubSeq(ordered, VisitedPrefixLen + 1, Len(ordered)),
              LAMBDA w : IsMatch(w, spec))

\* C1: repeated presses with a fixed live set and a fixed spec matching
\* k >= 2 windows, the focus moving only by this tool, started with the app
\* unfocused: the first press focuses the first matching window in MRU order,
\* every window focused matches, and any k consecutive presses focus k
\* distinct windows (so each matching window exactly once per k presses).
C1_RepeatedPressCycle ==
    (cycleFromUnfocused /\ Len(SpecMatching) >= 2) =>
        /\ Len(focusLog) = 1 => focusLog[1] = FirstMatching
        /\ \A i \in 1..Len(focusLog) : Contains(SpecMatching, focusLog[i])
        /\ \A i, j \in 1..Len(focusLog) :
               (i < j /\ j - i < Len(SpecMatching)) => focusLog[i] # focusLog[j]
        /\ focusLog[Len(focusLog)] = focused

\* A cycle over three matching windows has gone round twice.
C1_Witness ==
    /\ cycleFromUnfocused
    /\ Len(SpecMatching) = 3
    /\ Len(focusLog) = 6
    /\ focusLog[4] = focusLog[1]

\* C2: the spec has one of the option keys, some window matches and the
\* focused window (a window, none, or a window that is not in the list) is
\* not a matching one: exactly the first matching window of orderedWindows is
\* focused, and the list saved is orderedWindows with that window moved to
\* the front.
C2_FocusFirstMatching ==
    (/\ Decided
     /\ HasSpecOption(spec)
     /\ SpecMatching # <<>>
     /\ ~Contains(SpecMatching, focusedAtCall)) =>
        /\ action = "FOCUS"
        /\ FocusCalls = <<FocusCall(FirstMatching)>>
        /\ Undisturbed => focused = FirstMatching
        /\ SaveCalls = <<SaveCall(<<FirstMatching>> \o Without(ordered, FirstMatching))>>
        /\ Returned => store = StoreOf(<<FirstMatching>> \o Without(ordered, FirstMatching))
        /\ RunCalls = <<>>

\* The focused window was not in the list at all (it had opened since the
\* list was read), and the window focused was not at the front of the list.
C2_Witness ==
    /\ action = "FOCUS"
    /\ focusedAtCall # None
    /\ ~Contains(ordered, focusedAtCall)
    /\ FirstMatching # ordered[1]
    /\ proc[1].pc = "done"
    /\ store.st = "ok"
    /\ store.list[1] = FirstMatching

\* C3: the decision has reached the matching step (the spec has an option
\* key), the focused window matches and at least two windows match: the
\* window focused is the first matching window outside the visited prefix,
\* or the last matching window when there is none outside it.
C3_AdvanceTarget ==
    (/\ Decided
     /\ HasSpecOption(spec)
     /\ Contains(SpecMatching, focusedAtCall)
     /\ Len(SpecMatching) >= 2) =>
        /\ action = "ADVANCE"
        /\ FocusCalls = <<FocusCall(IF SpecUnvisited # <<>> THEN SpecUnvisited[1]
                                    ELSE LastMatching)>>
        /\ Undisturbed => focused = FocusCalls[1].win

\* An advance to an unvisited window that is not the last matching one.
C3_Witness ==
    /\ action = "ADVANCE"
    /\ SpecUnvisited # <<>>
    /\ focused = SpecUnvisited[1]
    /\ focused # LastMatching

\* The command the spec asks to run: none when the key is absent or empty.
SpecCommandCalls ==
    IF "command" \in DOMAIN spec /\ Len(spec["command"]) > 0
    THEN <<RunCall(spec["command"])>>
    ELSE <<>>

LaunchCase ==
    /\ Decided
    /\ \/ ~HasSpecOption(spec)
       \/ ordered = <<>>
       \/ SpecMatching = <<>>

\* C4: the spec has no option key, or orderedWindows is empty, or no window
\* matches: the action is LAUNCH whatever is focused; the command is run
\* exactly once when the spec has a non-empty one and not at all otherwise;
\* nothing is focused, promoted or saved.
C4_Launch ==
    LaunchCase =>
        /\ action = "LAUNCH"
        /\ calls = SpecCommandCalls
        /\ openWindows = ordered
        /\ Undisturbed => (store = storeAtCall /\ focused = focusedAtCall)

\* A launch without a command, and with windows open and one focused.
C4_Witness ==
    /\ action = "LAUNCH"
    /\ "command" \in DOMAIN spec
    /\ spec["command"] = <<>>
    /\ calls = <<>>
    /\ ordered # <<>>
    /\ Contains(ordered, focusedAtCall)

NoopCase ==
    /\ Decided
    /\ HasSpecOption(spec)
    /\ SpecMatching = <<focusedAtCall>>

\* C5: exactly one window matches and it is the focused one: NOOP; no call
\* at all is made, and the in-memory list, the pickle file and the focus are
\* left as they were.
C5_Noop ==
    NoopCase =>
        /\ action = "NOOP"
        /\ calls = <<>>
        /\ openWindows = ordered
        /\ Undisturbed => (store = storeAtCall /\ focused = focusedAtCall)

\* A no-op on a list that differs from the stored one: a save would show.
C5_Witness ==
    /\ action = "NOOP"
    /\ Len(ordered) >= 2
    /\ store.st = "ok"
    /\ store.list # ordered

\* The live windows the stored list does not have, in live-list order.
NewlyOpened == SelectSeq(live, LAMBDA w : ~Contains(loaded, w))

\* The stored windows that are still live, in their stored order.
StillOpen == SelectSeq(loaded, LAMBDA w : Contains(live, w))

Reverse(s) == [i \in 1..Len(s) |-> s[Len(s) + 1 - i]]

\* C6 as stated: reconcile returns the newly opened windows in live-list
\* order, then the stored windows that are still live in their prior order.
C6_NewInLiveOrder ==
    (Decided /\ Undisturbed) => ordered = NewlyOpened \o StillOpen

\* C6, amended: reconcile returns the newly opened windows in the reverse
\* of their live-list order (each is inserted at the front in turn), then
\* the stored windows that are still live in their prior order.
C6_NewInReverseLiveOrder ==
    (Decided /\ Undisturbed) => ordered = Reverse(NewlyOpened) \o StillOpen

\* Two windows were opened and one kept since the list was stored.
C6_Witness ==
    /\ Decided
    /\ Len(NewlyOpened) >= 2
    /\ StillOpen # <<>>
    /\ ordered = <<NewlyOpened[2], NewlyOpened[1]>> \o StillOpen

\* C7: whatever windows opened and closed between invocations, the list
\* reconcile returns and every list saved have no duplicates and hold
\* exactly the windows live in that invocation; the pickle file then holds
\* the list saved.
C7_MruListInvariant ==
    Decided =>
        /\ IsDupFree(ordered)
        /\ Undisturbed => Range(ordered) = Range(live)
        /\ \A i \in 1..Len(SaveCalls) :
               /\ IsDupFree(SaveCalls[i].list)
               /\ Range(SaveCalls[i].list) = Range(ordered)
        /\ (Returned /\ SaveCalls # <<>>) =>
               store = StoreOf(SaveCalls[Len(SaveCalls)].list)

\* A save after a window of the stored list closed and another one opened.
C7_Witness ==
    /\ SaveCalls # <<>>
    /\ Range(loaded) \ Range(live) # {}
    /\ Range(live) \ Range(loaded) # {}
    /\ Returned
    /\ Len(store.list) >= 2

\* C8: promote puts the window at index 0, keeps the order of the others
\* and keeps the length, for every member of the list; and the list saved
\* by a focusing invocation is the list so promoted.
C8_Promote ==
    Decided =>
        /\ \A w \in Range(ordered) :
               /\ Promote(ordered, w)[1] = w
               /\ Len(Promote(ordered, w)) = Len(ordered)
               /\ Tail(Promote(ordered, w)) = Without(ordered, w)
        /\ FocusCalls # <<>> =>
               /\ Len(SaveCalls) = 1
               /\ SaveCalls[1].list[1] = FocusCalls[1].win
               /\ Len(SaveCalls[1].list) = Len(ordered)
               /\ Tail(SaveCalls[1].list) = Without(ordered, FocusCalls[1].win)
               /\ Returned => store = StoreOf(SaveCalls[1].list)
               /\ openWindows = SaveCalls[1].list

\* The last of three windows was promoted.
C8_Witness ==
    /\ FocusCalls # <<>>
    /\ Len(ordered) = 3
    /\ ordered[3] = FocusCalls[1].win
    /\ Returned
    /\ store.list = <<ordered[3], ordered[1], ordered[2]>>

\* C9: reconciling the reconciled list with the same live list changes
\* nothing.
C9_ReconcileIdempotent ==
    (Decided /\ Undisturbed) =>
        /\ Reconcile(ordered, live) = ordered
        /\ Reconcile(Reconcile(loaded, live), live) = Reconcile(loaded, live)

\* The first reconcile both dropped and added windows.
C9_Witness ==
    /\ Decided
    /\ Range(loaded) \ Range(live) # {}
    /\ Len(NewlyOpened) >= 2
    /\ ordered # loaded
    /\ Reconcile(ordered, live) = ordered

\* C10: an invocation that finds the pickle file missing, unreadable or not
\* a pickle goes on with the empty list: windows() returns, and what it
\* returns is the reconciliation of the empty list with the live windows.
C10_LoadNeverFails ==
    (Undisturbed /\ storeAtCall.st # "ok") =>
        /\ action # "RAISED"
        /\ ordered = Reconcile(<<>>, live)

\* C13: an invocation that focuses or advances makes exactly one focus call
\* and exactly one save, and the list saved has the window focused at its
\* front; no invocation makes more than one focus call or more than one save.
C13_OneFocusOneSave ==
    action # "IDLE" =>
        /\ Len(FocusCalls) <= 1
        /\ Len(SaveCalls) <= 1
        /\ IsFocusAction(action) =>
               /\ Len(FocusCalls) = 1
               /\ Len(SaveCalls) = 1
               /\ SaveCalls[1].list[1] = FocusCalls[1].win
        /\ ~IsFocusAction(action) => (FocusCalls = <<>> /\ SaveCalls = <<>>)

\* An advance that moved a window to the front.
C13_Witness ==
    /\ action = "ADVANCE"
    /\ Len(calls) = 2
    /\ ordered[1] # FocusCalls[1].win
    /\ Returned
    /\ store.list[1] = FocusCalls[1].win

\* The number of times the window w occurs in the list s.
Occurrences(s, w) == Cardinality({i \in 1..Len(s) : s[i] = w})

\* C18: for every spec, every duplicate-free orderedWindows and every
\* focused window, none included, runraisenext takes exactly one of the four
\* branches and no assertion fails: the branch is the one its conditions
\* select, the advance branch is entered only with the focused window
\* matching and at least two windows matching, and a window promoted occurs
\* exactly once in orderedWindows.
C18_DecisionTotal ==
    Decided =>
        /\ action \in {"LAUNCH", "FOCUS", "NOOP", "ADVANCE"}
        /\ action = "LAUNCH" <=> LaunchCase
        /\ action = "FOCUS" <=>
               (~LaunchCase /\ ~Contains(SpecMatching, focusedAtCall))
        /\ action = "NOOP" <=> NoopCase
        /\ action = "ADVANCE" =>
               /\ Contains(SpecMatching, focusedAtCall)
               /\ Len(SpecMatching) > 1
        /\ \A i \in 1..Len(FocusCalls) : Occurrences(ordered, FocusCalls[i].win) = 1

\* An advance with nothing focused outside the app: all three windows match.
C18_Witness ==
    /\ action = "ADVANCE"
    /\ Len(ordered) = 3
    /\ Len(SpecMatching) = 3
    /\ Occurrences(ordered, focused) = 1

\* C19: when the focused window is the first of orderedWindows, the window
\* an advance focuses is a matching window other than the focused one.
C19_AdvanceMovesFromFront ==
    (action = "ADVANCE" /\ ordered[1] = focusedAtCall) =>
        /\ Len(FocusCalls) = 1
        /\ FocusCalls[1].win # focusedAtCall
        /\ Contains(SpecMatching, FocusCalls[1].win)
        /\ Undisturbed => focused = FocusCalls[1].win

\* A wrap from the front: every matching window was in the visited prefix.
C19_Witness ==
    /\ action = "ADVANCE"
    /\ ordered[1] = focusedAtCall
    /\ SpecUnvisited = <<>>
    /\ focused = LastMatching
    /\ focused # focusedAtCall

\* The other half of C19: with the focused window not at the front, an
\* advance can focus the window that is focused already.
C19_RefocusReached ==
    /\ action = "ADVANCE"
    /\ ordered[1] # focusedAtCall
    /\ focused = focusedAtCall

\* C16, as stated: a spec with at least one key other than `command` never
\* launches when some window of orderedWindows matches it.
C16_KeyedSpecNeverLaunches ==
    (/\ Decided
     /\ (DOMAIN spec) \ {"command"} # {}
     /\ SpecMatching # <<>>) =>
        action \in {"FOCUS", "NOOP", "ADVANCE"}

----------------------------------------------------------------------------
(* matches() on its own: one call with a window and a window spec.         *)

\* The main state machine at rest, with nothing in the file system or on the
\* screen: what the specifications of single functions start from.
AtRest ==
    /\ Idle
    /\ store = StoreMissing
    /\ live = <<>>
    /\ focused = None

atRest == <<store, live, focused, proc, watch>>

\* Window specs of one key, with and without a command, besides WindowSpecs.
OneKeySpecs ==
    LET keys   == {"title", "machine", "wm_class", "window_id"}
        values == {<<>>, <<97>>, <<65, 65>>, <<104>>, <<46, 102>>, <<122>>}
    IN  UNION {{[k \in {key} |-> value],
                [k \in {key, "command"} |-> IF k = "command" THEN <<103>> ELSE value]} :
               key \in keys, value \in values}

InitMatches ==
    /\ AtRest
    /\ unit \in [fn : {"matches"}, window : WindowIds,
                 window_spec : WindowSpecs \cup OneKeySpecs,
                 returned : {FALSE}, result : {FALSE}]

\* result = matches(window, window_spec)
CallMatches ==
    /\ unit.fn = "matches"
    /\ ~unit.returned
    /\ unit' = [unit EXCEPT !.returned = TRUE,
                            !.result = matches(unit.window, unit.window_spec)]
    /\ UNCHANGED atRest

NextMatches == CallMatches

SpecMatches == InitMatches /\ [][NextMatches]_vars

\* C12, as stated: matches(window, spec) is true if and only if, for every key
\* of the spec other than `command`, the window has that attribute and the
\* spec's value is, ignoring case, a substring of the attribute's value.
C12_MatchesIffHasAttributes ==
    unit.returned =>
        (unit.result <=>
            \A key \in (DOMAIN unit.window_spec) \ {"command"} :
                /\ key \in DOMAIN WindowAttrs(unit.window)
                /\ IsSubstring(Lower(unit.window_spec[key]),
                               Lower(WindowAttrs(unit.window)[key])))

\* The part of C12 the code does satisfy: a spec that is empty or holds only
\* `command` matches every window, and a window with every attribute the
\* spec names matches exactly when each value is a substring ignoring case.
C12_MatchesOnPresentAttributes ==
    (/\ unit.returned
     /\ (DOMAIN unit.window_spec) \ {"command"} \subseteq DOMAIN WindowAttrs(unit.window)) =>
        (unit.result <=>
            \A key \in (DOMAIN unit.window_spec) \ {"command"} :
                IsSubstring(Lower(unit.window_spec[key]),
                            Lower(WindowAttrs(unit.window)[key])))

----------------------------------------------------------------------------
(* update_pickled_window_list() on its own: one call with a list and a     *)
(* window that need not be in it.                                          *)

\* The lists handed to the call: the duplicate-free ones, and two in which
\* a window occurs twice.
PromoteLists == DupFreeSeqs(WindowIds) \cup {<<1, 1>>, <<2, 1, 2>>}

InitPromote ==
    /\ Idle
    /\ live = <<>>
    /\ focused = None
    /\ lastDump = <<>>
    /\ store \in {StoreMissing, StoreOf(<<1>>)}
    /\ unit \in [fn : {"update_pickled_window_list"},
                 open_windows : PromoteLists, newly_focused_window : WindowIds,
                 file_ : {store},
                 returned : {FALSE}, raised : {FALSE}, open : {<<>>}]

\* update_pickled_window_list(open_windows, newly_focused_window)
CallPromote ==
    /\ unit.fn = "update_pickled_window_list"
    /\ ~unit.returned
    /\ \E u \in {update_pickled_window_list(unit.open_windows,
                                            unit.newly_focused_window)} :
        /\ unit' = [unit EXCEPT !.returned = TRUE, !.raised = u.raised,
                                !.open = u.open]
        /\ store' = StoreAfter(store, u.calls)
    /\ UNCHANGED <<live, focused, proc, watch>>

NextPromote == CallPromote

SpecPromote == InitPromote /\ [][NextPromote]_vars

\* C17: update_pickled_window_list called with a window that is not in the
\* list fails with an assertion error before any change: the list is the
\* one it was given and the pickle file is as it was.
C17_PromoteNonMemberFails ==
    (/\ unit.returned
     /\ ~Contains(unit.open_windows, unit.newly_focused_window)) =>
        /\ unit.raised
        /\ unit.open = unit.open_windows
        /\ store = unit.file_

\* A call with a non-empty list that lacks the window, the file holding a
\* list: it has failed and the file still holds that list.
C17_Witness ==
    /\ unit.returned
    /\ unit.raised
    /\ unit.open_windows = <<2, 3>>
    /\ unit.newly_focused_window = 1
    /\ unit.open = <<2, 3>>
    /\ store = StoreOf(<<1>>)

----------------------------------------------------------------------------
(* get_window_spec_from_file() on its own.  The config file is the text of *)
(* a JSON object, modelled as the sequence of its members <<key, value>>   *)
(* in the order they are written.                                          *)

\* json.loads of an object: one entry per distinct key, and for a key that
\* is written more than once the value of its last member.
JsonLoads(text) ==
    [key \in {text[i][1] : i \in DOMAIN text} |->
        LET last == CHOOSE i \in DOMAIN text :
                        /\ text[i][1] = key
                        /\ \A j \in DOMAIN text : text[j][1] = key => j <= i
        IN  text[last][2]]

\* Lines 51-54: the loop that fills lowercased_specs, a set of pairs
\* <<lowercased key, spec>> here.  The order in which a dict yields its keys
\* is not fixed; the loop fails in every order or in none.
RECURSIVE LowercasedSpecs(_, _, _)
LowercasedSpecs(specs, keys, lowercased_specs) ==
    IF keys = {} THEN [raised |-> FALSE, specs |-> lowercased_specs]
    ELSE LET key == CHOOSE k \in keys : TRUE IN
         IF \E e \in lowercased_specs : e[1] = Lower(key)
         THEN [raised |-> TRUE, specs |-> lowercased_specs]
         ELSE LowercasedSpecs(specs, keys \ {key},
                              lowercased_specs \cup {<<Lower(key), specs[key]>>})

\* get_window_spec_from_file(alias, file_): the spec returned, or the
\* exception that leaves the function.
get_window_spec_from_file(alias, text) ==
    LET specs == JsonLoads(text)
        lowercased == LowercasedSpecs(specs, DOMAIN specs, {})
        found == {e \in lowercased.specs : e[1] = Lower(alias)}
    IN  IF lowercased.raised THEN [error |-> "AssertionError", spec |-> <<>>]
        ELSE IF found = {} THEN [error |-> "KeyError", spec |-> <<>>]
        ELSE [error |-> "", spec |-> (CHOOSE e \in found : TRUE)[2]]

\* Aliases as written in config files: "ff", "FF", "Ff", "t".
FileKeys == {<<102, 102>>, <<70, 70>>, <<70, 102>>, <<116>>}

\* The specs stored under them.
FileSpecs == {[wm_class |-> <<46, 102>>, command |-> <<102, 102>>],
              [title |-> <<65, 65>>]}

\* Config files of up to two members.
FileTexts ==
    LET members == FileKeys \X FileSpecs
    IN  {<<>>} \cup {<<m>> : m \in members}
               \cup {<<m, n>> : m \in members, n \in members}

\* Aliases asked for on the command line: "ff", "FF", "T", "z".
Aliases == {<<102, 102>>, <<70, 70>>, <<84>>, <<122>>}

InitAlias ==
    /\ AtRest
    /\ unit \in [fn : {"get_window_spec_from_file"},
                 alias : Aliases, text : FileTexts,
                 returned : {FALSE}, error : {""}, spec : {<<>>}]

\* spec = get_window_spec_from_file(alias, file_)
CallAlias ==
    /\ unit.fn = "get_window_spec_from_file"
    /\ ~unit.returned
    /\ \E r \in {get_window_spec_from_file(unit.alias, unit.text)} :
        unit' = [unit EXCEPT !.returned = TRUE, !.error = r.error, !.spec = r.spec]
    /\ UNCHANGED atRest

NextAlias == CallAlias

SpecAlias == InitAlias /\ [][NextAlias]_vars

\* Two members of the file have keys that are equal ignoring case.
TwoKeysEqualIgnoringCase(text) ==
    \E i, j \in DOMAIN text : i < j /\ Lower(text[i][1]) = Lower(text[j][1])

\* C20, as stated: the lookup fails when two keys of the file are equal
\* ignoring case, whichever alias is asked for; otherwise it fails when no
\* key equals the alias ignoring case, and returns the spec stored under the
\* key that does.
C20_AliasLookup ==
    unit.returned =>
        LET hits == {i \in DOMAIN unit.text :
                        Lower(unit.text[i][1]) = Lower(unit.alias)}
        IN  IF TwoKeysEqualIgnoringCase(unit.text) THEN unit.error # ""
            ELSE IF hits = {} THEN unit.error # ""
            ELSE /\ unit.error = ""
                 /\ \A i \in hits : unit.spec = unit.text[i][2]

\* What the code does satisfy: the same statement for files in which no key
\* is written twice letter for letter.
C20_AliasLookupDistinctKeys ==
    (\A i, j \in DOMAIN unit.text : i < j => unit.text[i][1] # unit.text[j][1])
        => C20_AliasLookup

----------------------------------------------------------------------------
(* Two presses side by side and nothing else: every window is open, the    *)
(* window manager does not act, each press runs once, in every order of    *)
(* the steps.  A process can be killed between two steps.                  *)

\* Every window is open, listed by the window manager in the order of the
\* ids; the pickle file holds them in some order.
InitProcs ==
    /\ Idle
    /\ unit = <<>>
    /\ live = [i \in 1..NumWindows |-> i]
    /\ store \in {StoreOf(l) : l \in {m \in DupFreeSeqs(WindowIds) : Len(m) = NumWindows}}
    /\ focused \in WindowIds \cup {None}

\* The press of process p.
Start(p) ==
    /\ proc[p].pc = "start"
    /\ \E window_spec \in StepSpecs : ReadStep(p, window_spec, Disturbed)

\* The latest dump, kept as process p takes a step.
Dumped(p) ==
    lastDump' = IF proc'[p].dumped # proc[p].dumped THEN proc'[p].dumped
                ELSE lastDump

NextProcs ==
    /\ \E p \in Procs :
        /\ \/ Start(p)
           \/ ListStep(p)
           \/ DecideStep(p)
           \/ RunStep(p)
           \/ FocusStep(p)
           \/ OpenStep(p)
           \/ OpenFails(p)
           \/ DumpStep(p)
           \/ DumpFails(p)
           \/ Crash(p)
        /\ Dumped(p)
    /\ UNCHANGED <<focusLog, cycleFromUnfocused, meanwhile>>

SpecProcs == InitProcs /\ [][NextProcs]_vars

\* The process has left main(): it returned, an exception left it (at the
\* load, in an assertion, or the IOError of a save that failed), or it was
\* killed.
Finished(p) == proc[p].pc \in EndedPcs \cup {"crashed"}

\* C11, as stated: a process killed during the save leaves the pickle file
\* holding the complete previous snapshot or the complete new one.  Stated
\* for a process that saves with no other process running.
C11_SaveCrashAtomic ==
    \A p \in Procs :
        (/\ proc[p].pc = "crashed"
         /\ proc[p].crashedAt = "dumping"
         /\ \A q \in Procs \ {p} : proc[q].pc = "start") =>
            store \in {proc[p].found, StoreOf(Head(proc[p].todo).list)}

\* C14: a process that has come to its save, whether the save is under way,
\* has failed or is done, has made its focus call before; the failure of a
\* save finds the focus call made.
C14_FocusBeforeSave ==
    \A p \in Procs :
        (\/ proc[p].pc \in {"dumping", "savefailed"}
         \/ proc[p].dumped # <<>>
         \/ (proc[p].pc = "crashed" /\ proc[p].crashedAt = "dumping")) =>
            /\ proc[p].didFocus
            /\ \A i \in 1..Len(proc[p].todo) : proc[p].todo[i].op # "focus"

\* A save that failed alone: the window it was to promote has the focus and
\* the pickle file is as the process found it.
C14_Witness ==
    \E p \in Procs :
        /\ proc[p].pc = "savefailed"
        /\ proc[p].didFocus
        /\ focused = Head(proc[p].todo).list[1]
        /\ store = StoreOf(proc[p].open_windows)
        /\ store.list[1] # focused
        /\ \A q \in Procs \ {p} : proc[q].pc = "start"

\* What the pickle file is to hold once the processes are over, with a
\* dump made: exactly the list of the latest pickle.dump, without
\* duplicates, from which windows() of the next invocation returns a list
\* of exactly the live windows, each once.
LastWriteWon ==
    /\ store = StoreOf(lastDump)
    /\ IsDupFree(store.list)
    /\ \E w \in {windows(store, live)} :
           /\ ~w.raised
           /\ IsDupFree(w.list)
           /\ Range(w.list) = Range(live)

\* C15, as stated: once both processes have left main(), in whatever order
\* their steps were taken, and at least one of them saved, the pickle file
\* holds exactly the list of the process that saved last, that list has no
\* duplicates, and windows() of the next invocation returns a list of
\* exactly the live windows.
C15_LastWriteWins ==
    ((\A p \in Procs : Finished(p)) /\ lastDump # <<>>) => LastWriteWon

\* The save of process p was cut short: it failed, or the process was
\* killed between open(..., "w") and the end of pickle.dump.
CutShort(p) ==
    \/ proc[p].pc = "savefailed"
    \/ proc[p].pc = "crashed" /\ proc[p].crashedAt = "dumping"

\* What the code does satisfy: the same statement when no save was cut
\* short; a process killed before its save does no harm.
C15_LastWholeWriteWins ==
    (/\ \A p \in Procs : Finished(p) /\ ~CutShort(p)
     /\ lastDump # <<>>) => LastWriteWon

\* Process 2 saved and returned, then the dump of process 1 failed on the
\* file its open(..., "w") had emptied: both have left main() and the
\* pickle file holds no list.
C15_SaveLost ==
    /\ proc[2].pc = "done"
    /\ lastDump = proc[2].dumped
    /\ lastDump # <<>>
    /\ proc[1].pc = "savefailed"
    /\ store = StoreCorrupt

\* Both processes loaded the same list, promoted different windows and
\* saved; the file holds the list of process 1, not that of process 2.
C15_Witness ==
    /\ \A p \in Procs : proc[p].pc = "done" /\ proc[p].dumped # <<>>
    /\ proc[1].open_windows = proc[2].open_windows
    /\ proc[1].dumped # proc[2].dumped
    /\ store = StoreOf(proc[1].dumped)
    /\ lastDump = proc[1].dumped

====
